---- MODULE Spec2Model ----
(***************************************************************************)
(* PPG ML service (ml-service/main.py, preprocessing/ppg.py,               *)
(* models/papagei.py).                                                     *)
(*                                                                         *)
(* Units.  Frequencies are integers in hundredths of a hertz (cHz), so     *)
(* 125.0 Hz is 12500 and 124.95 Hz is 12495.  Optional values are          *)
(* sequences: None is <<>> and a present value v is <<v>>.  Fractions are  *)
(* records [num, den] with den > 0, compared by cross-multiplication, so   *)
(* the arithmetic is exact (floating-point rounding is not modelled).      *)
(***************************************************************************)
EXTENDS Integers, Sequences, FiniteSets, TLC

VARIABLES
    \* ---- service (main.py) ----
    PAPAGEI_AVAILABLE,  \* main.py:15-21, result of importing models.papagei
    lifespan,           \* position of the lifespan context manager
    papagei_model,      \* main.py:36, the process-wide model handle
    pc,                 \* stage of the analyze_ppg invocation in progress
    request,            \* [n, frameRate]: sample count and frame rate of the request
    modelAtEntry,       \* the handle value analyze_ppg read at main.py:125
    processed,          \* [n, fs, filter]: what preprocess_ppg_signal has produced so far
    trace,              \* the stages this invocation has executed, in order
    response,           \* what the caller receives
    \* ---- peak estimators (main.py:197-217) ----
    signal,             \* the samples handed to the estimator
    fs,                 \* its sampling rate (cHz)
    argsort,            \* the order numpy.argsort gives the candidate peaks
    heart_rate,         \* result of estimate_heart_rate_traditional
    hrv,                \* result of estimate_hrv_traditional
    \* ---- spectral estimators (main.py:220-230, ppg.py:119-148) ----
    welch_n,            \* len(signal) handed to welch
    welch_fs,           \* sampling rate handed to welch (cHz)
    psd,                \* the PSD welch returns, one power per frequency bin
    respiratory_rate,   \* result of estimate_respiratory_rate_traditional
    snr,                \* result of calculate_snr
    \* ---- quality scorers (main.py:233-242, papagei.py:170-195) ----
    embeddings,         \* the vector handed to calculate_signal_quality_from_embeddings
    segment_embeddings, \* what extract_embeddings(..., return_segments=True) gave
    signal_quality,     \* result of calculate_signal_quality_from_embeddings
    predicted_quality,  \* result of PaPaGeiModel.predict_signal_quality
    \* ---- preprocess_ppg_signal called on its own (ppg.py:11-73) ----
    waveform_n,         \* len(waveform)
    fs_original,        \* the source rate (cHz)
    fs_target,          \* the target rate (cHz)
    preprocessed,       \* what the call returned or raised
    restored,           \* what the call back to the source rate returned or raised
    \* ---- PaPaGeiModel.extract_embeddings called on its own (papagei.py:111-168) ----
    extract_n,          \* len(signal)
    extract_fs,         \* fs (cHz)
    segmented_signals,  \* the segments waveform_to_segments cut, as index ranges
    \* ---- a second analyze_ppg invocation (main.py:114-183) ----
    peer                \* the locals of the invocation that is not running now

svcVars == <<PAPAGEI_AVAILABLE, lifespan, papagei_model, pc, request,
             modelAtEntry, processed, trace, response>>
peakVars == <<signal, fs, argsort, heart_rate, hrv>>
specVars == <<welch_n, welch_fs, psd, respiratory_rate, snr>>
qualVars == <<embeddings, segment_embeddings, signal_quality, predicted_quality>>
prepVars == <<waveform_n, fs_original, fs_target, preprocessed, restored>>
segVars == <<extract_n, extract_fs, segmented_signals>>
calcVars == <<qualVars, prepVars, segVars, peer>>
vars == <<svcVars, peakVars, specVars, calcVars>>

----------------------------------------------------------------------------
(* Generic helpers *)

None == <<>>
Some(v) == <<v>>

Min(a, b) == IF a <= b THEN a ELSE b
Max(a, b) == IF a >= b THEN a ELSE b
Abs(a) == IF a < 0 THEN -a ELSE a

Frac(n, d) == IF d > 0 THEN [num |-> n, den |-> d] ELSE [num |-> -n, den |-> -d]
FLess(a, b) == a.num * b.den < b.num * a.den
FLeq(a, b) == a.num * b.den <= b.num * a.den
FMin(a, b) == IF FLeq(a, b) THEN a ELSE b
FMax(a, b) == IF FLeq(b, a) THEN a ELSE b

\* Python's int() on a float: truncation toward zero of n/d, d > 0.
TruncDiv(n, d) == IF n >= 0 THEN n \div d ELSE -((-n) \div d)

----------------------------------------------------------------------------
(* Bounds of the model *)

MaxSamples == 32

(* Program constants *)

MinSamples == 30
PreprocessMinSamples == 10
TargetRate == 12500
ResampleEpsilon == 10
FilterLow == 50
FilterHigh == 800
SegmentDurationSeconds == 10
TestSamples == 300
FilterOrder == 4
ExtractEmbeddingsRequiredArgs == 2
AnalyzeCallArgs == 1

\* Sample counts and frame rates (cHz) a request may carry.  300 samples at
\* 30 Hz is the request of test_service.py; 1 Hz and 3 Hz make 30 samples
\* resample to at least one 10-second segment; 6000 Hz makes them resample
\* to nothing; 124.9, 124.95 and 125 Hz are not resampled.
RequestLengths == (0 .. MaxSamples) \cup {TestSamples}
FrameRates == {-3000, 0, 100, 300, 3000, 12490, 12495, 12500, 12520, 600000}

----------------------------------------------------------------------------
(* preprocessing/ppg.py: preprocess_ppg_signal *)

\* ppg.py:52-53, max(0.01, min(x, 0.99))
ClampNorm(x) == FMax(Frac(1, 100), FMin(x, Frac(99, 100)))

\* scipy.signal.butter accepts a digital critical frequency only if 0 < Wn < 1
ValidWn(x) == x.num > 0 /\ FLess(x, Frac(1, 1))

\* scipy.signal.filtfilt: padlen = 3 * max(len(a), len(b)); the input must be
\* longer.  An order-4 band filter has 9 coefficients, a high filter 5.
Padlen(btype) == IF btype = "band" THEN 3 * (2 * FilterOrder + 1) ELSE 3 * (FilterOrder + 1)

FilterResult(ok, btype, low, high, err) ==
    [ok |-> ok, btype |-> btype, low |-> low, high |-> high, error |-> err]

\* FilterStage with low_norm <= high_norm as the test of ppg.py:55
FilterStage_BandOnEqual(n, r) ==
    IF n < PreprocessMinSamples
    THEN FilterResult(FALSE, "none", Frac(0, 1), Frac(0, 1), "Signal too short for processing")
    ELSE IF r = 0
    THEN FilterResult(FALSE, "none", Frac(0, 1), Frac(0, 1), "float division by zero")
    ELSE LET low_norm == ClampNorm(Frac(2 * FilterLow, r))
             high_norm == ClampNorm(Frac(2 * FilterHigh, r))
         IN IF FLeq(low_norm, high_norm)
            THEN IF n > Padlen("band")
                 THEN FilterResult(TRUE, "band", low_norm, high_norm, "")
                 ELSE FilterResult(FALSE, "band", low_norm, high_norm,
                                   "The length of the input vector x must be greater than padlen")
            ELSE LET high2 == FMin(Frac(2 * FilterHigh, r), Frac(99, 100))
                 IN IF ~ValidWn(high2)
                    THEN FilterResult(FALSE, "high", high2, high2,
                                      "Digital filter critical frequencies must be 0 < Wn < 1")
                    ELSE IF n > Padlen("high")
                    THEN FilterResult(TRUE, "high", high2, high2, "")
                    ELSE FilterResult(FALSE, "high", high2, high2,
                                      "The length of the input vector x must be greater than padlen")

\* ppg.py:38-62.  n samples at rate r (cHz).  nyquist = fs/2, so a cutoff of
\* c cHz normalises to 2c/r.
FilterStage(n, r) ==
    IF n < PreprocessMinSamples
    THEN FilterResult(FALSE, "none", Frac(0, 1), Frac(0, 1), "Signal too short for processing")
    ELSE IF r = 0
    THEN FilterResult(FALSE, "none", Frac(0, 1), Frac(0, 1), "float division by zero")
    ELSE LET low_norm == ClampNorm(Frac(2 * FilterLow, r))
             high_norm == ClampNorm(Frac(2 * FilterHigh, r))
         IN IF FLess(low_norm, high_norm)
            THEN IF n > Padlen("band")
                 THEN FilterResult(TRUE, "band", low_norm, high_norm, "")
                 ELSE FilterResult(FALSE, "band", low_norm, high_norm,
                                   "The length of the input vector x must be greater than padlen")
            ELSE LET high2 == FMin(Frac(2 * FilterHigh, r), Frac(99, 100))
                 IN IF ~ValidWn(high2)
                    THEN FilterResult(FALSE, "high", high2, high2,
                                      "Digital filter critical frequencies must be 0 < Wn < 1")
                    ELSE IF n > Padlen("high")
                    THEN FilterResult(TRUE, "high", high2, high2, "")
                    ELSE FilterResult(FALSE, "high", high2, high2,
                                      "The length of the input vector x must be greater than padlen")

\* The test of ppg.py:65 with >= in place of >
NeedsResample_AtEpsilon(r, t) == Abs(r - t) >= ResampleEpsilon

\* ppg.py:65, abs(fs_original - fs_target) > 0.1
NeedsResample(r, t) == Abs(r - t) > ResampleEpsilon

\* The ratio of ppg.py:66 upside down
ResampledLength_Swapped(n, r, t) == TruncDiv(n * r, t)

\* ppg.py:66 with round() in place of int()
ResampledLength_Rounded(n, r, t) == TruncDiv(2 * n * t + r, 2 * r)

\* ppg.py:66, int(len(filtered_signal) * fs_target / fs_original)
ResampledLength(n, r, t) == TruncDiv(n * t, r)

\* ppg.py:64-73.  The outcomes of resampling n samples from rate r to rate
\* t: the processed length and rate, or an error.  The code hands a
\* computed length of 0 to scipy.signal.resample unchecked, and what comes
\* back depends on the scipy build: its inverse FFT raises ValueError, or
\* takes the length 0 for "not given" and returns one sample, or an empty
\* array comes back; all three are kept.
ResampleOutcomes(n, r, t) ==
    IF NeedsResample(r, t)
    THEN IF ResampledLength(n, r, t) >= 1
         THEN {[ok |-> TRUE, n |-> ResampledLength(n, r, t), fs |-> t, error |-> ""]}
         ELSE {[ok |-> TRUE, n |-> 0, fs |-> t, error |-> ""],
               [ok |-> TRUE, n |-> 1, fs |-> t, error |-> ""],
               [ok |-> FALSE, n |-> 0, fs |-> t,
                error |-> "Invalid number of data points (0) specified."]}
    ELSE {[ok |-> TRUE, n |-> n, fs |-> r, error |-> ""]}

\* ppg.py:11-73, the whole function on n samples at rate r with the target
\* rate t: every way it can return (the length and the rate of the returned
\* signal, and whether that signal is the filtered buffer itself) or raise.
preprocess_ppg_signal(n, r, t) ==
    LET f == FilterStage(n, r)
    IN IF ~f.ok
       THEN {[state |-> "raised", filter |-> f, n |-> 0, fs |-> 0,
              resampled |-> FALSE, error |-> f.error]}
       ELSE { [state |-> IF o.ok THEN "returned" ELSE "raised", filter |-> f,
               n |-> o.n, fs |-> o.fs, resampled |-> NeedsResample(r, t),
               error |-> o.error] : o \in ResampleOutcomes(n, r, t) }

----------------------------------------------------------------------------
(* models/papagei.py: PaPaGeiModel.extract_embeddings *)

\* papagei.py:136 with round() in place of int()
SegmentLengthSamples_Rounded(r) == TruncDiv(2 * r * SegmentDurationSeconds + 100, 200)

\* papagei.py:136, int(fs * self.segment_duration_seconds)
SegmentLengthSamples(r) == TruncDiv(r * SegmentDurationSeconds, 100)

\* waveform_to_segments (PaPaGei): consecutive full segments, remainder dropped
SegmentCount(n, r) ==
    IF SegmentLengthSamples(r) >= 1 THEN n \div SegmentLengthSamples(r) ELSE 0

\* papagei.py:137-141, waveform_to_segments(segment_length=S) on n samples:
\* segment k is the samples [(k-1)*S, k*S), as many as fit, in order
waveform_to_segments(n, S) ==
    IF S >= 1 THEN [k \in 1 .. (n \div S) |-> [start |-> (k - 1) * S, stop |-> k * S]]
    ELSE <<>>

\* The call of main.py:156 with fs passed as well
CallBinds_WithRate == AnalyzeCallArgs + 1 >= ExtractEmbeddingsRequiredArgs

\* main.py:156 passes one positional argument; papagei.py:111-116 requires
\* signal and fs.  Python binds the call only if every required parameter
\* is given, and raises TypeError before the body runs otherwise.
CallBinds == AnalyzeCallArgs >= ExtractEmbeddingsRequiredArgs

----------------------------------------------------------------------------
(* main.py: responses of analyze_ppg *)

NoResponse ==
    [status |-> 0, detail |-> None, success |-> None, heartRate |-> None,
     heartRateVariability |-> None, respiratoryRate |-> None,
     signalQuality |-> None, confidence |-> None, embeddings |-> None,
     warnings |-> <<>>, error |-> None]

\* main.py:126-129, raise HTTPException(status_code=503, detail=...)
ModelNotLoaded ==
    [NoResponse EXCEPT !.status = 503,
        !.detail = Some("Model not loaded. Please check server logs and ensure model weights are downloaded.")]

\* main.py:137-141 and main.py:179-183: PPGAnalysisResponse(success=False,
\* signalQuality=0.0, error=...), every other field at its default
FailureResponse(msg) ==
    [NoResponse EXCEPT !.status = 200, !.success = Some(FALSE),
        !.signalQuality = Some(0), !.error = Some(msg)]

InsufficientData == FailureResponse("Insufficient signal data (minimum 30 samples required)")

\* The exception of a stage left uncaught: the framework answers 500
ProcessingError_Uncaught(e) ==
    [NoResponse EXCEPT !.status = 500, !.detail = Some("Internal Server Error")]

\* main.py:178-183, except Exception as e
ProcessingError(e) == FailureResponse("Processing error: " \o e)

\* main.py:168-176; q is the signal quality in thousandths
SuccessResponse(hr, hv, rr, q) ==
    [NoResponse EXCEPT !.status = 200, !.success = Some(TRUE),
        !.heartRate = hr, !.heartRateVariability = hv, !.respiratoryRate = rr,
        !.signalQuality = Some(q),
        !.confidence = Some(Min((q * 12) \div 10, 1000)),
        !.warnings = IF q > 700 THEN <<>> ELSE <<"Low signal quality detected">>]

NoRequest == [n |-> 0, frameRate |-> 0]
NoProcessed == [n |-> 0, fs |-> 0, filter |-> "none"]

\* The locals of an analyze_ppg invocation, and those of none in progress
Invocation(p, req, m, proc, t, resp) ==
    [pc |-> p, request |-> req, modelAtEntry |-> m, processed |-> proc,
     trace |-> t, response |-> resp]
IdleInvocation == Invocation("idle", NoRequest, "None", NoProcessed, <<>>, NoResponse)

Stages == <<"Validating", "Filtering", "Resampling", "Segmenting",
            "Embedding", "Estimating", "Scoring">>
Terminal == {"Done", "Failed"}

----------------------------------------------------------------------------
(* main.py:39-67: lifespan *)

\* main.py:44-63.  Returning before the yield makes the context manager
\* raise RuntimeError("generator didn't yield"), so startup fails; every
\* load error is caught and the service starts with the handle left None.
Startup ==
    /\ lifespan = "not_started"
    /\ IF ~PAPAGEI_AVAILABLE
       THEN /\ lifespan' = "startup_failed"
            /\ UNCHANGED papagei_model
       ELSE /\ lifespan' = "serving"
            /\ \E load \in {"ok", "FileNotFoundError", "Exception"} :
                  papagei_model' = IF load = "ok" THEN "Loaded" ELSE "None"
    /\ UNCHANGED <<PAPAGEI_AVAILABLE, pc, request, modelAtEntry, processed, trace, response>>
    /\ UNCHANGED <<peakVars, specVars, calcVars>>

\* main.py:65-67.  The server has stopped serving: no handler is in progress.
Shutdown ==
    /\ lifespan = "serving"
    /\ pc = "idle"
    /\ peer.pc = "idle"
    /\ lifespan' = "stopped"
    /\ papagei_model' = "None"
    /\ UNCHANGED <<PAPAGEI_AVAILABLE, pc, request, modelAtEntry, processed, trace, response>>
    /\ UNCHANGED <<peakVars, specVars, calcVars>>

\* main.py:186-192
health_check == [status |-> "healthy", model_loaded |-> papagei_model # "None"]

----------------------------------------------------------------------------
(* main.py:114-183: analyze_ppg *)

Fail(resp) ==
    /\ pc' = "Failed"
    /\ response' = resp

\* AnalyzeBegin without the check of the handle at main.py:125
AnalyzeBegin_NoModelCheck ==
    /\ lifespan = "serving"
    /\ pc = "idle"
    /\ \E n \in RequestLengths, r \in FrameRates : request' = [n |-> n, frameRate |-> r]
    /\ modelAtEntry' = papagei_model
    /\ trace' = <<>>
    /\ processed' = NoProcessed
    /\ pc' = "Validating"
    /\ response' = NoResponse
    /\ UNCHANGED <<PAPAGEI_AVAILABLE, lifespan, papagei_model>>
    /\ UNCHANGED <<peakVars, specVars, calcVars>>

\* main.py:125-129
AnalyzeBegin ==
    /\ lifespan = "serving"
    /\ pc = "idle"
    /\ \E n \in RequestLengths, r \in FrameRates : request' = [n |-> n, frameRate |-> r]
    /\ modelAtEntry' = papagei_model
    /\ trace' = <<>>
    /\ processed' = NoProcessed
    /\ IF papagei_model = "None"
       THEN Fail(ModelNotLoaded)
       ELSE /\ pc' = "Validating"
            /\ response' = NoResponse
    /\ UNCHANGED <<PAPAGEI_AVAILABLE, lifespan, papagei_model>>
    /\ UNCHANGED <<peakVars, specVars, calcVars>>

\* Validate with the threshold of ppg.py:38 in place of that of main.py:136
Validate_PreprocessThreshold ==
    /\ pc = "Validating"
    /\ trace' = Append(trace, "Validating")
    /\ IF request.n < PreprocessMinSamples
       THEN Fail(InsufficientData)
       ELSE /\ pc' = "Filtering"
            /\ UNCHANGED response
    /\ UNCHANGED <<PAPAGEI_AVAILABLE, lifespan, papagei_model, request, modelAtEntry, processed>>
    /\ UNCHANGED <<peakVars, specVars, calcVars>>

\* main.py:133-141
Validate ==
    /\ pc = "Validating"
    /\ trace' = Append(trace, "Validating")
    /\ IF request.n < MinSamples
       THEN Fail(InsufficientData)
       ELSE /\ pc' = "Filtering"
            /\ UNCHANGED response
    /\ UNCHANGED <<PAPAGEI_AVAILABLE, lifespan, papagei_model, request, modelAtEntry, processed>>
    /\ UNCHANGED <<peakVars, specVars, calcVars>>

\* Filter with the preprocessed signal kept in a module-level variable that
\* every invocation writes, in place of the local of main.py:149
Filter_SharedBuffer ==
    /\ pc = "Filtering"
    /\ trace' = Append(trace, "Filtering")
    /\ LET f == FilterStage(request.n, request.frameRate)
       IN IF f.ok
          THEN /\ pc' = "Resampling"
               /\ processed' = [n |-> request.n, fs |-> request.frameRate, filter |-> f.btype]
               /\ peer' = [peer EXCEPT !.processed =
                                [n |-> request.n, fs |-> request.frameRate, filter |-> f.btype]]
               /\ UNCHANGED response
          ELSE /\ Fail(ProcessingError(f.error))
               /\ UNCHANGED <<processed, peer>>
    /\ UNCHANGED <<PAPAGEI_AVAILABLE, lifespan, papagei_model, request, modelAtEntry>>
    /\ UNCHANGED <<peakVars, specVars, qualVars, prepVars, segVars>>

\* main.py:149-153 into ppg.py:38-62
Filter ==
    /\ pc = "Filtering"
    /\ trace' = Append(trace, "Filtering")
    /\ LET f == FilterStage(request.n, request.frameRate)
       IN IF f.ok
          THEN /\ pc' = "Resampling"
               /\ processed' = [n |-> request.n, fs |-> request.frameRate, filter |-> f.btype]
               /\ UNCHANGED response
          ELSE /\ Fail(ProcessingError(f.error))
               /\ UNCHANGED processed
    /\ UNCHANGED <<PAPAGEI_AVAILABLE, lifespan, papagei_model, request, modelAtEntry>>
    /\ UNCHANGED <<peakVars, specVars, calcVars>>

\* main.py:152 (fs_target=125.0) into ppg.py:64-73
Resample ==
    /\ pc = "Resampling"
    /\ trace' = Append(trace, "Resampling")
    /\ \E o \in ResampleOutcomes(processed.n, processed.fs, TargetRate) :
          IF o.ok
          THEN /\ pc' = "Segmenting"
               /\ processed' = [processed EXCEPT !.n = o.n, !.fs = o.fs]
               /\ UNCHANGED response
          ELSE /\ Fail(ProcessingError(o.error))
               /\ UNCHANGED processed
    /\ UNCHANGED <<PAPAGEI_AVAILABLE, lifespan, papagei_model, request, modelAtEntry>>
    /\ UNCHANGED <<peakVars, specVars, calcVars>>

\* What the estimators and the scorer can return to main.py:161-166 for a
\* processed signal whose samples the model does not carry.
EstimateOutcomes == {None, Some(72)}
QualityOutcomes == {0, 700, 705, 1000}

\* main.py:161-162: both peak estimators get the same signal and rate, so the
\* same peaks: fewer than 2 gives neither value (main.py:202), exactly 2 a
\* heart rate alone (main.py:213), 3 or more both.
PeakEstimates ==
    { [heartRate |-> IF count < 2 THEN None ELSE Some(72),
       hrv |-> IF count < 3 THEN None ELSE Some(72)] : count \in 0 .. 3 }

\* main.py:156-176.  The call of extract_embeddings, and what follows it
\* when the call binds: papagei.py:128-168 (preprocess_one_ppg_signal filters
\* again, waveform_to_segments segments, resample_batch_signal resamples the
\* segments, the model embeds), then the estimators and the score.
ExtractAndEstimate ==
    /\ pc = "Segmenting"
    /\ IF ~CallBinds
       THEN /\ Fail(ProcessingError("PaPaGeiModel.extract_embeddings() missing 1 required positional argument: 'fs'"))
            /\ UNCHANGED trace
       ELSE IF SegmentCount(processed.n, processed.fs) = 0
       THEN /\ Fail(ProcessingError("No valid segments extracted from signal"))
            /\ trace' = trace \o <<"Filtering", "Segmenting">>
       ELSE /\ pc' = "Done"
            /\ trace' = trace \o <<"Filtering", "Segmenting", "Resampling", "Embedding",
                                   "Estimating", "Scoring">>
            /\ \E pe \in PeakEstimates, rr \in EstimateOutcomes, q \in QualityOutcomes :
                  response' = SuccessResponse(pe.heartRate, pe.hrv, rr, q)
    /\ UNCHANGED <<PAPAGEI_AVAILABLE, lifespan, papagei_model, request, modelAtEntry, processed>>
    /\ UNCHANGED <<peakVars, specVars, calcVars>>

\* The response is handed to the caller and the next request may arrive.
Return ==
    /\ pc \in Terminal
    /\ pc' = "idle"
    /\ request' = NoRequest
    /\ processed' = NoProcessed
    /\ trace' = <<>>
    /\ response' = NoResponse
    /\ UNCHANGED <<PAPAGEI_AVAILABLE, lifespan, papagei_model, modelAtEntry>>
    /\ UNCHANGED <<peakVars, specVars, calcVars>>

----------------------------------------------------------------------------
(* scipy.signal.find_peaks(x, distance=d), as main.py:201 and 212 use it.  *)
(* Sample positions are 0-based, as in numpy; x is a 1-based sequence.     *)

Unset == [state |-> "unset", value |-> None]
Returned(v) == [state |-> "returned", value |-> v]
Raised == [state |-> "raised", value |-> None]

RECURSIVE SortedSeq(_)
SortedSeq(S) ==
    IF S = {} THEN <<>>
    ELSE LET m == CHOOSE a \in S : \A b \in S : a <= b
         IN <<m>> \o SortedSeq(S \ {m})

RECURSIVE SumSeq(_)
SumSeq(s) == IF s = <<>> THEN 0 ELSE Head(s) + SumSeq(Tail(s))

\* numpy.diff
Diff(s) == [i \in 1 .. (Len(s) - 1) |-> s[i + 1] - s[i]]

\* The last 1-based position of the run of equal samples that starts at i
PlateauEnd(x, i) ==
    CHOOSE j \in i .. Len(x) :
        /\ \A k \in i .. j : x[k] = x[i]
        /\ (j = Len(x) \/ x[j + 1] # x[i])

\* _local_maxima_1d: a sample, or the midpoint of a run of equal samples,
\* strictly above both neighbours; never the first or the last sample.
LocalMaxima(x) ==
    SortedSeq({ ((i - 1) + (PlateauEnd(x, i) - 1)) \div 2 :
                i \in { k \in 2 .. (Len(x) - 1) :
                          /\ x[k - 1] < x[k]
                          /\ PlateauEnd(x, k) < Len(x)
                          /\ x[PlateauEnd(x, k) + 1] < x[k] } })

Permutations1(n) == { p \in [1 .. n -> 1 .. n] : \A a, b \in 1 .. n : a # b => p[a] # p[b] }

\* numpy.argsort(x[peaks]): the candidate peaks by ascending height.  The
\* default sort is not stable, so candidates of equal height may come in
\* any order; the same input always gives the same order.
ArgsortOutcomes(x) ==
    LET cand == LocalMaxima(x)
    IN { p \in Permutations1(Len(cand)) :
           \A a, b \in 1 .. Len(cand) : a < b => x[cand[p[a]] + 1] <= x[cand[p[b]] + 1] }

\* _select_by_peak_distance: from the highest candidate down, a candidate
\* still kept removes every other candidate closer than d samples.
RECURSIVE SelectByPeakDistance(_, _, _, _, _)
SelectByPeakDistance(cand, order, d, i, keep) ==
    IF i = 0 THEN keep
    ELSE LET j == order[i]
         IN IF keep[j]
            THEN SelectByPeakDistance(cand, order, d, i - 1,
                    [k \in DOMAIN keep |-> keep[k] /\ (k = j \/ Abs(cand[k] - cand[j]) >= d)])
            ELSE SelectByPeakDistance(cand, order, d, i - 1, keep)

\* find_peaks raises ValueError when distance < 1
FindPeaks(x, d, order) ==
    IF d < 1 THEN [ok |-> FALSE, peaks |-> <<>>]
    ELSE LET cand == LocalMaxima(x)
             keep == SelectByPeakDistance(cand, order, d, Len(cand),
                                          [k \in 1 .. Len(cand) |-> TRUE])
         IN [ok |-> TRUE,
             peaks |-> SortedSeq({ cand[k] : k \in { m \in 1 .. Len(cand) : keep[m] } })]

----------------------------------------------------------------------------
(* main.py:197-217: the peak estimators *)

\* main.py:201 and 212, int(fs * 0.4)
PeakDistance(r) == TruncDiv(r * 4, 1000)

\* main.py:206, np.clip(hr, 40, 200)
HrLow == 40
HrHigh == 200
\* np.maximum alone: the upper limit forgotten
Clip_LowerOnly(x, lo, hi) == FMax(x, Frac(lo, 1))
Clip(x, lo, hi) == FMin(FMax(x, Frac(lo, 1)), Frac(hi, 1))

\* estimate_heart_rate_traditional asking for 4 peaks, one more than the HRV
estimate_heart_rate_traditional_FourPeaks(x, r, order) ==
    LET found == FindPeaks(x, PeakDistance(r), order)
    IN IF ~found.ok THEN Raised
       ELSE IF Len(found.peaks) < 4 THEN Returned(None)
       ELSE LET intervals == Diff(found.peaks)
                hr == Frac(3 * Len(intervals) * r, 5 * SumSeq(intervals))
            IN Returned(Some(Clip(hr, HrLow, HrHigh)))

\* main.py:197-206.  intervals = diff(peaks) / fs seconds, so with fs in cHz
\* 60 / mean(intervals) = 60 * count * fs / (100 * sum) = 3*count*fs / (5*sum).
estimate_heart_rate_traditional(x, r, order) ==
    LET found == FindPeaks(x, PeakDistance(r), order)
    IN IF ~found.ok THEN Raised
       ELSE IF Len(found.peaks) < 2 THEN Returned(None)
       ELSE LET intervals == Diff(found.peaks)
                hr == Frac(3 * Len(intervals) * r, 5 * SumSeq(intervals))
            IN Returned(Some(Clip(hr, HrLow, HrHigh)))

\* numpy.std of the intervals counted in samples: the mean of the squared
\* deviations from the mean, sum((n*d - S)^2) / n^3, under the square root.
VarianceOf(intervals) ==
    LET n == Len(intervals)
        S == SumSeq(intervals)
    IN Frac(SumSeq([i \in 1 .. n |-> (n * intervals[i] - S) * (n * intervals[i] - S)]),
            n * n * n)

\* estimate_hrv_traditional with the peak count test of the heart rate
estimate_hrv_traditional_TwoPeaks(x, r, order) ==
    LET found == FindPeaks(x, PeakDistance(r), order)
    IN IF ~found.ok THEN Raised
       ELSE IF Len(found.peaks) < 2 THEN Returned(None)
       ELSE Returned(Some([msPerSample |-> Frac(100000, r),
                           variance |-> VarianceOf(Diff(found.peaks))]))

\* main.py:209-217.  An interval of d samples is d / fs * 1000 ms, that is
\* d * 100000 / r; the returned deviation is msPerSample * sqrt(variance).
estimate_hrv_traditional(x, r, order) ==
    LET found == FindPeaks(x, PeakDistance(r), order)
    IN IF ~found.ok THEN Raised
       ELSE IF Len(found.peaks) < 3 THEN Returned(None)
       ELSE Returned(Some([msPerSample |-> Frac(100000, r),
                           variance |-> VarianceOf(Diff(found.peaks))]))

----------------------------------------------------------------------------
(* scipy.signal.welch(signal, fs, nperseg=min(len(signal), int(fs * 4))),  *)
(* as main.py:224 and ppg.py:134 use it.  Its numerics are not modelled:   *)
(* the PSD is any assignment of a non-negative power to each bin.          *)

\* nperseg=len(signal): the whole signal as one segment
Nperseg_WholeSignal(n, r) == n

\* main.py:224 and ppg.py:134
Nperseg(n, r) == Min(n, TruncDiv(r * 4, 100))

\* welch returns empty arrays for an empty input and raises ValueError
\* ("nperseg must be a positive integer") when nperseg < 1
WelchRaises(n, r) == n > 0 /\ Nperseg(n, r) < 1

\* numpy.fft.rfftfreq(nperseg, 1/fs): bin k is the frequency k * fs / nperseg
Bins(n, r) == IF n = 0 \/ WelchRaises(n, r) THEN {} ELSE 0 .. (Nperseg(n, r) \div 2)

\* (freqs >= lo) & (freqs <= hi) for bin k, lo and hi in cHz
InBand(k, n, r, lo, hi) ==
    /\ lo * Nperseg(n, r) <= k * r
    /\ k * r <= hi * Nperseg(n, r)

Band(n, r, lo, hi) == { k \in Bins(n, r) : InBand(k, n, r, lo, hi) }

RECURSIVE SumOver(_, _)
SumOver(f, S) ==
    IF S = {} THEN 0
    ELSE LET k == CHOOSE a \in S : TRUE IN f[k] + SumOver(f, S \ {k})

\* numpy.argmax over the bins of S in ascending order: the first maximum
ArgMax(f, S) == CHOOSE k \in S : \A j \in S : f[j] < f[k] \/ (f[j] = f[k] /\ k <= j)

RespLow == 15
RespHigh == 40

\* The respiratory band closed at 0.5 Hz, the lower edge of the signal band
estimate_respiratory_rate_traditional_WideBand(n, r, p) ==
    IF WelchRaises(n, r) THEN Raised
    ELSE LET resp_band == Band(n, r, 15, 50)
         IN IF resp_band = {} THEN Returned(None)
            ELSE Returned(Some(Frac(3 * ArgMax(p, resp_band) * r, 5 * Nperseg(n, r))))

\* main.py:220-230.  resp_freq * 60 with the rate in cHz is 60*k*r/(100*nperseg).
estimate_respiratory_rate_traditional(n, r, p) ==
    IF WelchRaises(n, r) THEN Raised
    ELSE LET resp_band == Band(n, r, RespLow, RespHigh)
         IN IF resp_band = {} THEN Returned(None)
            ELSE Returned(Some(Frac(3 * ArgMax(p, resp_band) * r, 5 * Nperseg(n, r))))

SignalLow == 50
SignalHigh == 400
NoiseLow == 400
NoiseHigh == 800

\* The value 10 * log10(ratio); divided tells whether signal_power /
\* noise_power was evaluated, and by what.
SnrValue(ratio, divided, divisor) == [ratio |-> ratio, divided |-> divided, divisor |-> divisor]

\* 0.0 is 10 * log10(1)
SnrFloor == SnrValue(Frac(1, 1), FALSE, Frac(1, 1))

\* calculate_snr with noise_power >= 0 as its test
calculate_snr_NoZeroCheck(n, r, p) ==
    IF WelchRaises(n, r) THEN Raised
    ELSE LET signal_mask == Band(n, r, 50, 400)
             noise_mask == Band(n, r, 400, 800)
         IN IF signal_mask # {} /\ noise_mask # {}
            THEN LET signal_power == [num |-> SumOver(p, signal_mask), den |-> Cardinality(signal_mask)]
                     noise_power == [num |-> SumOver(p, noise_mask), den |-> Cardinality(noise_mask)]
                 IN IF noise_power.num >= 0
                    THEN Returned([ratio |-> [num |-> signal_power.num * noise_power.den,
                                              den |-> signal_power.den * noise_power.num],
                                   divided |-> TRUE, divisor |-> noise_power])
                    ELSE Returned([ratio |-> [num |-> 1, den |-> 1], divided |-> FALSE,
                                   divisor |-> [num |-> 1, den |-> 1]])
            ELSE Returned([ratio |-> [num |-> 1, den |-> 1], divided |-> FALSE,
                           divisor |-> [num |-> 1, den |-> 1]])

\* calculate_snr with the noise band open at 4.0 Hz: freqs > 4.0
calculate_snr_DisjointBands(n, r, p) ==
    IF WelchRaises(n, r) THEN Raised
    ELSE LET signal_mask == Band(n, r, SignalLow, SignalHigh)
             noise_mask == { k \in Band(n, r, NoiseLow, NoiseHigh) : k * r > NoiseLow * Nperseg(n, r) }
         IN IF signal_mask # {} /\ noise_mask # {}
            THEN LET signal_power == Frac(SumOver(p, signal_mask), Cardinality(signal_mask))
                     noise_power == Frac(SumOver(p, noise_mask), Cardinality(noise_mask))
                 IN IF noise_power.num > 0
                    THEN Returned(SnrValue(Frac(signal_power.num * noise_power.den,
                                                signal_power.den * noise_power.num),
                                           TRUE, noise_power))
                    ELSE Returned(SnrFloor)
            ELSE Returned(SnrFloor)

\* ppg.py:119-148
calculate_snr(n, r, p) ==
    IF WelchRaises(n, r) THEN Raised
    ELSE LET signal_mask == Band(n, r, SignalLow, SignalHigh)
             noise_mask == Band(n, r, NoiseLow, NoiseHigh)
         IN IF signal_mask # {} /\ noise_mask # {}
            THEN LET signal_power == Frac(SumOver(p, signal_mask), Cardinality(signal_mask))
                     noise_power == Frac(SumOver(p, noise_mask), Cardinality(noise_mask))
                 IN IF noise_power.num > 0
                    THEN Returned(SnrValue(Frac(signal_power.num * noise_power.den,
                                                signal_power.den * noise_power.num),
                                           TRUE, noise_power))
                    ELSE Returned(SnrFloor)
            ELSE Returned(SnrFloor)

----------------------------------------------------------------------------
(* The quality scorers: main.py:233-242 and papagei.py:170-195.  An        *)
(* embedding is a sequence of integers; a quality is a fraction.           *)

OrchestratorVarianceNormalizer == 10
WrapperVarianceNormalizer == 5

\* calculate_signal_quality_from_embeddings with the min(..., 1.0) left out
calculate_signal_quality_from_embeddings_Unclamped(e) ==
    IF Len(e) = 0 THEN Frac(0, 1)
    ELSE LET variance == VarianceOf(e)
         IN Frac(variance.num, variance.den * OrchestratorVarianceNormalizer)

\* main.py:233-242.  np.var of the vector, divided by 10.0, at most 1.0
calculate_signal_quality_from_embeddings(e) ==
    IF Len(e) = 0 THEN Frac(0, 1)
    ELSE LET variance == VarianceOf(e)
         IN FMin(Frac(variance.num, variance.den * OrchestratorVarianceNormalizer),
                 Frac(1, 1))

\* np.var(embeddings, axis=0).mean(): the variance of every dimension across
\* the k segments, each over the denominator k^3, averaged over the dimensions
VarianceAcrossSegments(m) ==
    LET k == Len(m)
        dims == Len(m[1])
        column(j) == [i \in 1 .. k |-> m[i][j]]
    IN Frac(SumSeq([j \in 1 .. dims |-> VarianceOf(column(j)).num]), k * k * k * dims)

\* predict_signal_quality with the exception of extract_embeddings let through
predict_signal_quality_Reraises(extracted) ==
    IF extracted.state = "raised" THEN Raised
    ELSE LET variance == VarianceAcrossSegments(extracted.value)
         IN Returned(FMin(Frac(variance.num, variance.den * WrapperVarianceNormalizer),
                          Frac(1, 1)))

\* papagei.py:170-195.  extracted is what extract_embeddings did at
\* papagei.py:182: it returned the per-segment embeddings or it raised, and
\* every exception is turned into the quality 0.0.
predict_signal_quality(extracted) ==
    IF extracted.state = "raised" THEN Returned(Frac(0, 1))
    ELSE LET variance == VarianceAcrossSegments(extracted.value)
         IN Returned(FMin(Frac(variance.num, variance.den * WrapperVarianceNormalizer),
                          Frac(1, 1)))

----------------------------------------------------------------------------
(* Inputs of the estimators *)

MaxSigLen == 6
MaxLevel == 2
MaxPulses == 3
MaxWelchLen == 6
MaxPower == 2

\* Every signal of at most MaxSigLen samples over the levels 0 .. MaxLevel
SmallSignals == UNION { [1 .. n -> 0 .. MaxLevel] : n \in 0 .. MaxSigLen }

\* A pulse train on a zero baseline: pulse j has height heights[j] and
\* stands gaps[j-1] samples after pulse j-1; the first is at position 1.
PulsePosition(gaps, j) == 1 + SumSeq(SubSeq(gaps, 1, j - 1))
PulseTrain(gaps, heights) ==
    [i \in 1 .. (PulsePosition(gaps, Len(heights)) + 2) |->
        IF \E j \in 1 .. Len(heights) : PulsePosition(gaps, j) = i - 1
        THEN heights[CHOOSE j \in 1 .. Len(heights) : PulsePosition(gaps, j) = i - 1]
        ELSE 0]

\* 49 and 50 samples are the spacings around 0.4 s at 125 Hz
PulseGaps == {2, 3, 49, 50}
PulseTrains ==
    { PulseTrain(g, h) : g \in [1 .. (MaxPulses - 1) -> PulseGaps],
                         h \in [1 .. MaxPulses -> {1, 2}] }

Signals == SmallSignals \cup PulseTrains

\* 0.2 Hz (the detector refuses the distance 0), 2.5, 5, 6 and 7 Hz, and the
\* rates the pipeline hands over without resampling or after it.
PeakRates == {20, 250, 500, 600, 700, 12495, 12500}

\* 0.2 Hz (welch refuses nperseg 0), 1 to 30 Hz
SpectralRates == {20, 100, 150, 600, 800, 1200, 1600, 3000}

MaxEmbeddingLen == 2
MaxSegments == 2

\* Embedding values far enough apart for variances below 5, between 5 and
\* 10, and above 10
EmbeddingValues == {0, 5, 8}
EmbeddingVectors == UNION { [1 .. n -> EmbeddingValues] : n \in 0 .. MaxEmbeddingLen }

\* Per-segment embeddings of 1 .. MaxSegments segments, two of the 512
\* dimensions of each; or extract_embeddings raised
SegmentEmbeddings ==
    {Raised} \cup
    { Returned(m) : m \in UNION { [1 .. k -> [1 .. 2 -> EmbeddingValues]] : k \in 1 .. MaxSegments } }

----------------------------------------------------------------------------
(* Specifications *)

ServiceIdle ==
    /\ lifespan = "not_started"
    /\ papagei_model = "None"
    /\ pc = "idle"
    /\ request = NoRequest
    /\ modelAtEntry = "None"
    /\ processed = NoProcessed
    /\ trace = <<>>
    /\ response = NoResponse
    /\ peer = IdleInvocation

PeaksIdle ==
    /\ signal = <<>>
    /\ fs = 0
    /\ argsort = <<>>
    /\ heart_rate = Unset
    /\ hrv = Unset

SpectralIdle ==
    /\ welch_n = 0
    /\ welch_fs = 0
    /\ psd = <<>>
    /\ respiratory_rate = Unset
    /\ snr = Unset

\* Source rates (cHz) for preprocess_ppg_signal on its own: a negative rate
\* and 0; 0.2 and 1 Hz, where both cutoffs clamp to 0.99; 3 and 30 Hz; the
\* rates around 125 Hz, 0.1 Hz away and less; 1000 and 6000 Hz
SourceRates == {-3000, 0, 20, 100, 300, 3000, 12490, 12495, 12500, 12510, 100000, 600000}

\* Target rates: 0.1 Hz (0.1 Hz from the source rate 0.2 Hz), 30 Hz, the
\* 125 Hz of main.py:152, and 1000 Hz
TargetRates == {10, 3000, 12500, 100000}

PreprocessIdle ==
    /\ waveform_n = 0
    /\ fs_original = 0
    /\ fs_target = 0
    /\ preprocessed = Unset
    /\ restored = Unset

\* papagei.py:128-168 with return_segments=True, on n samples at rate r:
\* ValueError when no segment fits, else one embedding per segment.  What
\* the network computes is not modelled: any embedding may come out.
extract_embeddings(n, r) ==
    LET segments == waveform_to_segments(n, SegmentLengthSamples(r))
    IN IF Len(segments) = 0 THEN {Raised}
       ELSE { Returned(m) : m \in [1 .. Len(segments) -> [1 .. 2 -> EmbeddingValues]] }

\* Signal lengths around one, two and three 10-second segments at 125 Hz,
\* and the 25 seconds of 3125 samples
ExtractLengths == {0, 9, 10, 300, 1249, 1250, 2499, 2500, 3125, 3749, 3750}

\* 0.1 Hz (one sample in 10 seconds), 1 Hz, 30 Hz, 124.95, 124.96 and 125 Hz
ExtractRates == {10, 100, 3000, 12495, 12496, 12500}

\* The signals that give at most MaxSegments segments
ExtractInputs ==
    { in \in [n : ExtractLengths, fs : ExtractRates] : SegmentCount(in.n, in.fs) <= MaxSegments }

SegmentIdle ==
    /\ extract_n = 0
    /\ extract_fs = 0
    /\ segmented_signals = Unset

QualityIdle ==
    /\ embeddings = <<>>
    /\ segment_embeddings = Unset
    /\ signal_quality = Unset
    /\ predicted_quality = Unset

\* The service: startup, requests one after another, shutdown.
Init ==
    /\ PAPAGEI_AVAILABLE \in BOOLEAN
    /\ ServiceIdle
    /\ PeaksIdle
    /\ SpectralIdle
    /\ QualityIdle
    /\ PreprocessIdle
    /\ SegmentIdle

Next ==
    \/ Startup
    \/ Shutdown
    \/ AnalyzeBegin
    \/ Validate
    \/ Filter
    \/ Resample
    \/ ExtractAndEstimate
    \/ Return

Spec == Init /\ [][Next]_vars

\* analyze_ppg has no await: once entered it runs to its return.
AnalyzeStep == Validate \/ Filter \/ Resample \/ ExtractAndEstimate

SpecLive == Spec /\ WF_vars(AnalyzeStep)

\* Two invocations of analyze_ppg in progress at once.  The one whose
\* locals are in pc, request, modelAtEntry, processed, trace and response
\* is running; Yield hands the processor to the other.  Stages interleave
\* in every order, which is more than one event loop allows a handler
\* without await, and what worker threads would allow.
Yield ==
    /\ lifespan = "serving"
    /\ peer # Invocation(pc, request, modelAtEntry, processed, trace, response)
    /\ peer' = Invocation(pc, request, modelAtEntry, processed, trace, response)
    /\ pc' = peer.pc
    /\ request' = peer.request
    /\ modelAtEntry' = peer.modelAtEntry
    /\ processed' = peer.processed
    /\ trace' = peer.trace
    /\ response' = peer.response
    /\ UNCHANGED <<PAPAGEI_AVAILABLE, lifespan, papagei_model>>
    /\ UNCHANGED <<peakVars, specVars, qualVars, prepVars, segVars>>

NextConcurrent == Next \/ Yield

SpecConcurrent == Init /\ [][NextConcurrent]_vars

\* The peak estimators applied to one signal, as main.py:161-162 apply them.
InitPeaks ==
    /\ PAPAGEI_AVAILABLE = TRUE
    /\ ServiceIdle
    /\ SpectralIdle
    /\ QualityIdle
    /\ PreprocessIdle
    /\ SegmentIdle
    /\ signal \in Signals
    /\ fs \in PeakRates
    /\ argsort \in ArgsortOutcomes(signal)
    /\ heart_rate = Unset
    /\ hrv = Unset

EstimateHeartRate ==
    /\ heart_rate = Unset
    /\ heart_rate' = estimate_heart_rate_traditional(signal, fs, argsort)
    /\ UNCHANGED <<signal, fs, argsort, hrv>>
    /\ UNCHANGED <<svcVars, specVars, calcVars>>

EstimateHrv ==
    /\ heart_rate # Unset
    /\ hrv = Unset
    /\ hrv' = estimate_hrv_traditional(signal, fs, argsort)
    /\ UNCHANGED <<signal, fs, argsort, heart_rate>>
    /\ UNCHANGED <<svcVars, specVars, calcVars>>

NextPeaks == EstimateHeartRate \/ EstimateHrv

SpecPeaks == InitPeaks /\ [][NextPeaks]_vars

\* Lengths around the 500 samples that 4 seconds at 125 Hz hold, and the
\* 10 seconds of 1250 samples
LongLengths == {499, 500, 501, 1250}

\* PSDs over many bins: one power at bin j, another at every other bin
TwoLevelPsds(B) ==
    { [k \in B |-> IF k = j THEN a ELSE b] : j \in B, a \in 0 .. MaxPower, b \in 0 .. MaxPower }

\* The spectral estimators applied to one PSD: every PSD of a short signal,
\* and the two-level PSDs of a signal at the 125 Hz of main.py:152.
InitSpectral ==
    /\ PAPAGEI_AVAILABLE = TRUE
    /\ ServiceIdle
    /\ PeaksIdle
    /\ QualityIdle
    /\ PreprocessIdle
    /\ SegmentIdle
    /\ \/ /\ welch_n \in 0 .. MaxWelchLen
          /\ welch_fs \in SpectralRates
          /\ psd \in [Bins(welch_n, welch_fs) -> 0 .. MaxPower]
       \/ /\ welch_n \in LongLengths
          /\ welch_fs = TargetRate
          /\ psd \in TwoLevelPsds(Bins(welch_n, welch_fs))
    /\ respiratory_rate = Unset
    /\ snr = Unset

EstimateRespiratoryRate ==
    /\ respiratory_rate = Unset
    /\ respiratory_rate' = estimate_respiratory_rate_traditional(welch_n, welch_fs, psd)
    /\ UNCHANGED <<welch_n, welch_fs, psd, snr>>
    /\ UNCHANGED <<svcVars, peakVars, calcVars>>

CalculateSnr ==
    /\ snr = Unset
    /\ snr' = calculate_snr(welch_n, welch_fs, psd)
    /\ UNCHANGED <<welch_n, welch_fs, psd, respiratory_rate>>
    /\ UNCHANGED <<svcVars, peakVars, calcVars>>

NextSpectral == EstimateRespiratoryRate \/ CalculateSnr

SpecSpectral == InitSpectral /\ [][NextSpectral]_vars

\* The two quality scorers, each applied to what the model returned.
InitQuality ==
    /\ PAPAGEI_AVAILABLE = TRUE
    /\ ServiceIdle
    /\ PeaksIdle
    /\ SpectralIdle
    /\ PreprocessIdle
    /\ SegmentIdle
    /\ embeddings \in EmbeddingVectors
    /\ segment_embeddings \in SegmentEmbeddings
    /\ signal_quality = Unset
    /\ predicted_quality = Unset

CalculateSignalQuality ==
    /\ signal_quality = Unset
    /\ signal_quality' = Returned(calculate_signal_quality_from_embeddings(embeddings))
    /\ UNCHANGED <<embeddings, segment_embeddings, predicted_quality>>
    /\ UNCHANGED <<svcVars, peakVars, specVars, prepVars, segVars, peer>>

PredictSignalQuality ==
    /\ segment_embeddings # Unset
    /\ predicted_quality = Unset
    /\ predicted_quality' = predict_signal_quality(segment_embeddings)
    /\ UNCHANGED <<embeddings, segment_embeddings, signal_quality>>
    /\ UNCHANGED <<svcVars, peakVars, specVars, prepVars, segVars, peer>>

NextQuality == CalculateSignalQuality \/ PredictSignalQuality

SpecQuality == InitQuality /\ [][NextQuality]_vars

\* preprocess_ppg_signal called on a waveform, and called again on what it
\* returned with the source rate as the target.
InitPreprocess ==
    /\ PAPAGEI_AVAILABLE = TRUE
    /\ ServiceIdle
    /\ PeaksIdle
    /\ SpectralIdle
    /\ QualityIdle
    /\ SegmentIdle
    /\ waveform_n \in RequestLengths
    /\ fs_original \in SourceRates
    /\ fs_target \in TargetRates
    /\ preprocessed = Unset
    /\ restored = Unset

Preprocess ==
    /\ preprocessed = Unset
    /\ preprocessed' \in preprocess_ppg_signal(waveform_n, fs_original, fs_target)
    /\ UNCHANGED <<waveform_n, fs_original, fs_target, restored>>
    /\ UNCHANGED <<svcVars, peakVars, specVars, qualVars, segVars, peer>>

PreprocessBack ==
    /\ preprocessed.state = "returned"
    /\ restored = Unset
    /\ restored' \in preprocess_ppg_signal(preprocessed.n, preprocessed.fs, fs_original)
    /\ UNCHANGED <<waveform_n, fs_original, fs_target, preprocessed>>
    /\ UNCHANGED <<svcVars, peakVars, specVars, qualVars, segVars, peer>>

NextPreprocess == Preprocess \/ PreprocessBack

SpecPreprocess == InitPreprocess /\ [][NextPreprocess]_vars

\* The model wrapper: extract_embeddings on a signal, and
\* predict_signal_quality on the same signal, whose call of extract_embeddings
\* (papagei.py:182) ends the same way.
InitExtract ==
    /\ PAPAGEI_AVAILABLE = TRUE
    /\ ServiceIdle
    /\ PeaksIdle
    /\ SpectralIdle
    /\ QualityIdle
    /\ PreprocessIdle
    /\ \E in \in ExtractInputs : extract_n = in.n /\ extract_fs = in.fs
    /\ segmented_signals = Unset

ExtractEmbeddings ==
    /\ segment_embeddings = Unset
    /\ segmented_signals' = Returned(waveform_to_segments(extract_n, SegmentLengthSamples(extract_fs)))
    /\ segment_embeddings' \in extract_embeddings(extract_n, extract_fs)
    /\ UNCHANGED <<extract_n, extract_fs, embeddings, signal_quality, predicted_quality>>
    /\ UNCHANGED <<svcVars, peakVars, specVars, prepVars, peer>>

NextExtract == ExtractEmbeddings \/ PredictSignalQuality

SpecExtract == InitExtract /\ [][NextExtract]_vars

----------------------------------------------------------------------------
(* Properties of analyze_ppg *)

EstimatesAbsent(resp) ==
    /\ resp.heartRate = None
    /\ resp.heartRateVariability = None
    /\ resp.respiratoryRate = None
    /\ resp.confidence = None
    /\ resp.embeddings = None

InsufficientDataAnswer(resp) ==
    /\ resp.status = 200
    /\ resp.success = Some(FALSE)
    /\ resp.error = Some("Insufficient signal data (minimum 30 samples required)")

InSeq(x, q) == \E i \in 1 .. Len(q) : q[i] = x

\* No stage after validation has run
OnlyValidated(t) == \A i \in 1 .. Len(t) : t[i] = "Validating"

\* C1 as stated: a request of fewer than 30 samples ends in Failed with the
\* "insufficient signal data" error, carries no estimate and runs no stage
\* after validation, whether or not the model is loaded.
C1_ShortSignalRejected ==
    (pc \in Terminal /\ request.n < 30) =>
        /\ pc = "Failed"
        /\ InsufficientDataAnswer(response)
        /\ EstimatesAbsent(response)
        /\ OnlyValidated(trace)

\* C1 amended: a request of fewer than 30 samples ends in Failed, carries no
\* estimate and runs no stage after validation; the failure is the
\* "insufficient signal data" error when the model is loaded and the 503
\* "model not loaded" error when it is not.
C1_ShortSignalFails ==
    (pc \in Terminal /\ request.n < 30) =>
        /\ pc = "Failed"
        /\ EstimatesAbsent(response)
        /\ OnlyValidated(trace)
        /\ modelAtEntry = "Loaded" => InsufficientDataAnswer(response)
        /\ modelAtEntry = "None" => (response.status = 503 /\ response.error = None)

C1_Witness ==
    /\ pc = "Failed"
    /\ request.n = 29
    /\ modelAtEntry = "Loaded"
    /\ trace = <<"Validating">>

\* The filter can be designed and applied and at least one 10-second
\* segment comes out of every way the resampling can end
PassesStageGuards(req) ==
    /\ req.n >= 30
    /\ FilterStage(req.n, req.frameRate).ok
    /\ \A o \in ResampleOutcomes(req.n, req.frameRate, TargetRate) :
          o.ok /\ SegmentCount(o.n, o.fs) >= 1

\* C2 as stated: with the model handle None a valid request is not aborted;
\* the estimators run and a successful record with a warning is returned.
C2_DegradesGracefully ==
    (pc \in Terminal /\ modelAtEntry = "None" /\ PassesStageGuards(request)) =>
        /\ pc = "Done"
        /\ response.success = Some(TRUE)
        /\ response.warnings # <<>>
        /\ InSeq("Estimating", trace)

\* C2 amended: with the model handle None every request is aborted with
\* HTTP 503 before any stage runs; no estimator runs and no record is returned.
C2_AbortsWhenNotLoaded ==
    (pc \in Terminal /\ modelAtEntry = "None") =>
        /\ pc = "Failed"
        /\ response.status = 503
        /\ response.detail # None
        /\ response.success = None
        /\ EstimatesAbsent(response)
        /\ trace = <<>>

C2_Witness ==
    /\ pc = "Failed"
    /\ modelAtEntry = "None"
    /\ request = [n |-> 300, frameRate |-> 3000]
    /\ response.status = 503

\* C3: with the model loaded, a request of at least 30 samples whose filter
\* design succeeds and which yields at least one segment has the embedding
\* run and ends in Done with success = true.
C3_ReachesDone ==
    (pc \in Terminal /\ modelAtEntry = "Loaded" /\ PassesStageGuards(request)) =>
        /\ pc = "Done"
        /\ response.success = Some(TRUE)
        /\ InSeq("Embedding", trace)

StageRank(st) == CHOOSE i \in 1 .. Len(Stages) : Stages[i] = st
StageNames == { Stages[i] : i \in 1 .. Len(Stages) }

\* The executed stages are in forward order, none twice, and the stage
\* about to run comes after all of them
ForwardOrder ==
    /\ \A i, j \in 1 .. Len(trace) : i < j => StageRank(trace[i]) < StageRank(trace[j])
    /\ pc \in StageNames => \A i \in 1 .. Len(trace) : StageRank(trace[i]) < StageRank(pc)

\* C4: every invocation executes its stages in the forward order, each at
\* most once, and always ends in Done or Failed, which it leaves only by
\* returning.
C4_ForwardOnceTerminates ==
    /\ []ForwardOrder
    /\ [][(pc \in Terminal) => (pc' \in {pc, "idle"})]_vars
    /\ (pc \in StageNames) ~> (pc \in Terminal)

C4_Witness ==
    /\ pc = "Failed"
    /\ trace = <<"Validating", "Filtering", "Resampling">>

\* C5: with the model loaded, every failure is answered as HTTP 200 with
\* success = false, signalQuality = 0.0, a non-empty error and no estimate;
\* no invocation ends any other way than that or a successful record.
C5_StructuredFailure ==
    (pc \in Terminal /\ modelAtEntry = "Loaded") =>
        /\ response.status = 200
        /\ pc = "Failed" =>
              /\ response.success = Some(FALSE)
              /\ response.signalQuality = Some(0)
              /\ response.error # None
              /\ \A i \in 1 .. Len(response.error) : response.error[i] # ""
              /\ EstimatesAbsent(response)
        /\ pc = "Done" => response.success = Some(TRUE)

C5_Witness ==
    /\ pc = "Failed"
    /\ modelAtEntry = "Loaded"
    /\ request.n >= 30
    /\ response.error = Some("Processing error: float division by zero")

----------------------------------------------------------------------------
(* Properties of the peak estimators *)

PeaksFound == FindPeaks(signal, PeakDistance(fs), argsort)

\* C6: the heart rate is None exactly when the detector finds fewer than 2
\* peaks; with 2 or more it is 60 / (mean inter-peak interval in seconds)
\* clamped into [40, 200].  The mean interval is (last - first) / (count - 1)
\* samples, so the unclamped rate is 3*(count-1)*fs / (5*(last-first)).
C6_HeartRate ==
    heart_rate # Unset =>
        LET p == PeaksFound.peaks
            count == Len(p)
        IN /\ (heart_rate = Returned(None)) <=> (PeaksFound.ok /\ count < 2)
           /\ (PeaksFound.ok /\ count >= 2) =>
                /\ heart_rate.state = "returned"
                /\ heart_rate.value # None
                /\ LET v == heart_rate.value[1]
                       rawNum == 3 * (count - 1) * fs
                       rawDen == 5 * (p[count] - p[1])
                   IN /\ 40 * v.den <= v.num
                      /\ v.num <= 200 * v.den
                      /\ IF rawNum < 40 * rawDen THEN v.num = 40 * v.den
                         ELSE IF rawNum > 200 * rawDen THEN v.num = 200 * v.den
                         ELSE v.num * rawDen = rawNum * v.den

\* A heart rate above 200 was clamped
C6_Witness ==
    /\ heart_rate = Returned(Some([num |-> 200, den |-> 1]))
    /\ Len(PeaksFound.peaks) >= 2

\* C7: the HRV is None exactly when the detector finds fewer than 3 peaks;
\* with 3 or more it is the standard deviation of the intervals in ms: the
\* conversion is 1000 / fs ms per sample, the variance is the textbook
\* (n * sum(d^2) - sum(d)^2) / n^2, it is non-negative, and it is 0 when
\* the intervals are all equal.
C7_Hrv ==
    hrv # Unset =>
        LET p == PeaksFound.peaks
            count == Len(p)
        IN /\ (hrv = Returned(None)) <=> (PeaksFound.ok /\ count < 3)
           /\ (PeaksFound.ok /\ count >= 3) =>
                /\ hrv.state = "returned"
                /\ hrv.value # None
                /\ LET v == hrv.value[1]
                       n == count - 1
                       d == [i \in 1 .. n |-> p[i + 1] - p[i]]
                       S == p[count] - p[1]
                       Q == SumSeq([i \in 1 .. n |-> d[i] * d[i]])
                   IN /\ v.variance.den > 0
                      /\ v.variance.num >= 0
                      /\ v.msPerSample.den > 0
                      /\ v.msPerSample.num * fs = 100000 * v.msPerSample.den
                      /\ v.variance.num * (n * n) = (n * Q - S * S) * v.variance.den
                      /\ (\A i, j \in 1 .. n : d[i] = d[j]) => v.variance.num = 0

\* Three peaks at unequal intervals
C7_Witness ==
    /\ hrv.state = "returned"
    /\ hrv.value # None
    /\ hrv.value[1].variance.num > 0

\* The rates preprocess_ppg_signal returns (ppg.py:64-73): the target
\* rate, or a frame rate within 0.1 Hz of it
PipelineRate(r) == Abs(r - 12500) <= 10

\* C8: at every rate the pipeline can hand to the estimators, any two
\* detected peaks are at least 0.4 * rate samples apart.
C8_MinSpacing ==
    (heart_rate # Unset /\ PipelineRate(fs)) =>
        LET p == PeaksFound.peaks
        IN \A i, j \in 1 .. Len(p) : i < j => (p[j] - p[i]) * 1000 >= 4 * fs

----------------------------------------------------------------------------
(* Properties of the spectral estimators *)

\* The bins of the PSD whose frequency k * fs / nperseg lies in [lo, hi] cHz
BinsWithin(lo, hi) ==
    { k \in DOMAIN psd :
        /\ lo * Nperseg(welch_n, welch_fs) <= k * welch_fs
        /\ k * welch_fs <= hi * Nperseg(welch_n, welch_fs) }

\* C9: the respiratory rate is None exactly when no bin lies in
\* [0.15, 0.4] Hz; otherwise it is 60 times the frequency of the bin of
\* maximum power in that band, the lowest such bin on a tie, and lies in
\* [9, 24].
C9_RespiratoryRate ==
    respiratory_rate # Unset =>
        IF WelchRaises(welch_n, welch_fs) THEN respiratory_rate = Raised
        ELSE LET inband == BinsWithin(15, 40)
             IN /\ respiratory_rate.state = "returned"
                /\ (respiratory_rate.value = None) <=> (inband = {})
                /\ inband # {} =>
                     LET v == respiratory_rate.value[1]
                     IN /\ \E k \in inband :
                              /\ v.num * 100 * Nperseg(welch_n, welch_fs) = 60 * k * welch_fs * v.den
                              /\ \A j \in inband : psd[j] <= psd[k]
                              /\ \A j \in inband : psd[j] = psd[k] => k <= j
                        /\ 9 * v.den <= v.num
                        /\ v.num <= 24 * v.den

\* 4 samples at 1.5 Hz: the bin at 0.375 Hz gives 22.5 breaths/min
C9_Witness ==
    /\ respiratory_rate.state = "returned"
    /\ respiratory_rate.value # None
    /\ welch_n = 4
    /\ welch_fs = 150

\* C10: the SNR is exactly 0 dB, with nothing divided, when the signal band
\* [0.5, 4] Hz or the noise band [4, 8] Hz has no bin or the mean noise
\* power is 0; otherwise it is 10 * log10 of mean signal power over mean
\* noise power; the divisor is never 0.
C10_Snr ==
    (snr # Unset /\ ~WelchRaises(welch_n, welch_fs)) =>
        LET S == BinsWithin(50, 400)
            N == BinsWithin(400, 800)
            v == snr.value
        IN /\ snr.state = "returned"
           /\ v.divided => v.divisor.num > 0
           /\ v.ratio.den > 0
           /\ IF S = {} \/ N = {} \/ SumOver(psd, N) = 0
              THEN ~v.divided /\ v.ratio.num = v.ratio.den
              ELSE /\ v.divided
                   /\ v.ratio.num * (Cardinality(S) * SumOver(psd, N))
                        = (SumOver(psd, S) * Cardinality(N)) * v.ratio.den

\* Both bands hold bins, the noise power is positive and the ratio is not 1
C10_Witness ==
    /\ snr.state = "returned"
    /\ snr.value.divided
    /\ snr.value.ratio.num # snr.value.ratio.den
    /\ SumOver(psd, BinsWithin(400, 800)) > 0

----------------------------------------------------------------------------
(* Properties of the quality scorers *)

SumSquares(e) == SumSeq([i \in 1 .. Len(e) |-> e[i] * e[i]])

\* q = min((a / b) / N, 1.0) for a variance a / b with b > 0
IsClampedRatio(q, a, b, N) ==
    /\ q.den > 0
    /\ 0 <= q.num
    /\ q.num <= q.den
    /\ a = 0 => q.num = 0
    /\ a >= N * b => q.num = q.den
    /\ a < N * b => q.num * (N * b) = a * q.den

\* The orchestrator's scorer with the normalizer N: the variance of the
\* vector is (n * sum(x^2) - sum(x)^2) / n^2, and an empty vector scores 0
OrchestratorScoresWith(N) ==
    LET n == Len(embeddings)
        q == signal_quality.value
    IN /\ signal_quality.state = "returned"
       /\ IF n = 0 THEN q.num = 0 /\ q.den > 0
          ELSE IsClampedRatio(q, n * SumSquares(embeddings) - SumSeq(embeddings) * SumSeq(embeddings),
                              n * n, N)

\* The wrapper's scorer with the normalizer N: the variance is the mean
\* over the dimensions of the variance across the segments
WrapperScoresWith(N) ==
    /\ predicted_quality.state = "returned"
    /\ predicted_quality.value.den > 0
    /\ 0 <= predicted_quality.value.num
    /\ predicted_quality.value.num <= predicted_quality.value.den
    /\ segment_embeddings.state = "returned" =>
         LET m == segment_embeddings.value
             k == Len(m)
             dims == Len(m[1])
             col(j) == [i \in 1 .. k |-> m[i][j]]
         IN IsClampedRatio(predicted_quality.value,
                           SumSeq([j \in 1 .. dims |->
                                      k * SumSquares(col(j)) - SumSeq(col(j)) * SumSeq(col(j))]),
                           dims * k * k, N)

\* C11 as stated: each scorer returns min(variance / varianceNormalizer,
\* 1.0), a quality in [0, 1] that is 0.0 for variance 0 or an empty
\* embedding and 1.0 for a variance of at least varianceNormalizer, and the
\* two scorers do so with one and the same varianceNormalizer.
C11_OneNormalizer ==
    (signal_quality # Unset /\ predicted_quality # Unset) =>
        \E N \in 1 .. 20 : OrchestratorScoresWith(N) /\ WrapperScoresWith(N)

\* C11 amended: each scorer returns min(variance / varianceNormalizer, 1.0),
\* a quality in [0, 1] that is 0.0 for variance 0 or an empty embedding and
\* 1.0 for a variance of at least varianceNormalizer; varianceNormalizer is
\* 10 in the orchestrator's scorer and 5 in the model wrapper's, and the
\* wrapper's scorer returns 0.0 when the embedding cannot be extracted.
C11_QualityScore ==
    /\ signal_quality # Unset => OrchestratorScoresWith(10)
    /\ predicted_quality # Unset =>
         /\ WrapperScoresWith(5)
         /\ segment_embeddings.state = "raised" => predicted_quality.value.num = 0

\* The same variance 6.25 scored 0.625 by the orchestrator and 1.0 by the wrapper
C11_Witness ==
    /\ embeddings = <<0, 5>>
    /\ signal_quality = Returned([num |-> 50, den |-> 80])
    /\ segment_embeddings = Returned(<< <<0, 5>>, <<5, 0>> >>)
    /\ predicted_quality.state = "returned"
    /\ predicted_quality.value.num = predicted_quality.value.den

----------------------------------------------------------------------------
(* Properties of preprocess_ppg_signal *)

FEq(a, b) == a.num * b.den = b.num * a.den

\* x brought into [0.01, 0.99]
Clamp01(x) ==
    IF FLess(x, [num |-> 1, den |-> 100]) THEN [num |-> 1, den |-> 100]
    ELSE IF FLess([num |-> 99, den |-> 100], x) THEN [num |-> 99, den |-> 100]
    ELSE x

\* C12: for a signal of at least 10 samples, the filter stage designs a
\* bandpass exactly when the clamped cutoffs 0.5 / nyquist and 8 / nyquist
\* satisfy low < high, and then 0 < low < high < 1; otherwise it designs a
\* highpass from the high cutoff alone (8 / nyquist, at most 0.99), and when
\* that cutoff is not strictly between 0 and 1 the call raises the filter
\* design error and returns no signal.
C12_FilterDesign ==
    (preprocessed # Unset /\ waveform_n >= 10 /\ fs_original # 0) =>
        LET f == preprocessed.filter
            low == Clamp01(Frac(100, fs_original))
            high == Clamp01(Frac(1600, fs_original))
            unclampedBelow == FMin(Frac(1600, fs_original), [num |-> 99, den |-> 100])
        IN /\ (f.btype = "band") <=> FLess(low, high)
           /\ f.btype = "band" =>
                /\ FEq(f.low, low) /\ FEq(f.high, high)
                /\ 0 < f.low.num /\ FLess(f.low, f.high) /\ f.high.num < f.high.den
           /\ ~FLess(low, high) =>
                /\ f.btype = "high"
                /\ FEq(f.high, unclampedBelow)
                /\ ~(0 < f.high.num /\ f.high.num < f.high.den) =>
                     /\ preprocessed.state = "raised"
                     /\ preprocessed.error = "Digital filter critical frequencies must be 0 < Wn < 1"

\* A negative rate: both cutoffs clamp to 0.01, the highpass cutoff is
\* negative and the design fails
C12_Witness ==
    /\ waveform_n >= 10
    /\ fs_original < 0
    /\ preprocessed.state = "raised"
    /\ preprocessed.filter.btype = "high"

\* C13 as stated: after a successful filter, a source rate less than 0.1
\* Hz from the target rate leaves the filtered buffer as it is (same
\* length, same samples, rate = source rate); a difference of 0.1 Hz or
\* more resamples, and the reported rate is then the target rate; so the
\* reported rate is always the source rate or the target rate.
C13_SkipBelowEpsilon ==
    (preprocessed # Unset /\ preprocessed.filter.ok) =>
        /\ IF Abs(fs_original - fs_target) < 10
           THEN /\ preprocessed.state = "returned"
                /\ ~preprocessed.resampled
                /\ preprocessed.n = waveform_n
                /\ preprocessed.fs = fs_original
           ELSE /\ preprocessed.resampled
                /\ preprocessed.state = "returned" => preprocessed.fs = fs_target
        /\ preprocessed.state = "returned" => preprocessed.fs \in {fs_original, fs_target}

\* C13 amended: after a successful filter, a source rate at most 0.1 Hz
\* from the target rate leaves the filtered buffer as it is (same length,
\* same samples, rate = source rate); a difference of more than 0.1 Hz
\* resamples, and the reported rate is then the target rate; so the
\* reported rate is always the source rate or the target rate.
C13_SkipUpToEpsilon ==
    (preprocessed # Unset /\ preprocessed.filter.ok) =>
        /\ IF Abs(fs_original - fs_target) <= 10
           THEN /\ preprocessed.state = "returned"
                /\ ~preprocessed.resampled
                /\ preprocessed.n = waveform_n
                /\ preprocessed.fs = fs_original
           ELSE /\ preprocessed.resampled
                /\ preprocessed.state = "returned" => preprocessed.fs = fs_target
        /\ preprocessed.state = "returned" => preprocessed.fs \in {fs_original, fs_target}

\* 0.2 Hz towards 0.1 Hz: exactly 0.1 Hz apart and not resampled
C13_Witness ==
    /\ fs_original = 20
    /\ fs_target = 10
    /\ preprocessed.state = "returned"
    /\ ~preprocessed.resampled
    /\ preprocessed.n = waveform_n

\* A signal came back resampled from at least 10 samples at positive rates
ResampledFromValid ==
    /\ preprocessed # Unset
    /\ preprocessed.state = "returned"
    /\ preprocessed.resampled
    /\ waveform_n >= 10
    /\ fs_original > 0
    /\ fs_target > 0

\* C14 as stated: whenever resampling is performed the output length is
\* round(inputLength * targetRate / sourceRate), an integer nearest to the
\* quotient (whichever way a half is rounded).
C14_RoundedLength ==
    ResampledFromValid =>
        2 * Abs(preprocessed.n * fs_original - waveform_n * fs_target) <= fs_original

\* C14 amended: whenever resampling is performed and inputLength *
\* targetRate / sourceRate is at least 1, the output length is that
\* quotient truncated to an integer, floor(inputLength * targetRate /
\* sourceRate).
C14_TruncatedLength ==
    (ResampledFromValid /\ waveform_n * fs_target >= fs_original) =>
        /\ preprocessed.n * fs_original <= waveform_n * fs_target
        /\ waveform_n * fs_target < (preprocessed.n + 1) * fs_original

\* 31 samples from 3 Hz to 125 Hz: 1291.67 gives 1291 samples, not 1292
C14_Witness ==
    /\ waveform_n = 31
    /\ fs_original = 300
    /\ fs_target = 12500
    /\ preprocessed.state = "returned"
    /\ preprocessed.n = 1291

\* C15: when the computed resampled length is 0 (at least 10 samples, the
\* source rate so far above the target rate that inputLength * targetRate /
\* sourceRate is below 1), the call fails with an error; no signal is
\* returned as a successful result.
C15_ZeroLengthRejected ==
    (/\ preprocessed # Unset
     /\ preprocessed.filter.ok
     /\ waveform_n >= 10
     /\ fs_original > 0 /\ fs_target > 0
     /\ Abs(fs_original - fs_target) > 10
     /\ waveform_n * fs_target < fs_original)
        => preprocessed.state = "raised"

\* Both calls returned: from at least 10 samples at positive rates to the
\* target rate and back to the source rate
RoundTripDone ==
    /\ restored # Unset
    /\ restored.state = "returned"
    /\ waveform_n >= 10
    /\ fs_original > 0
    /\ fs_target > 0

\* C16 as stated: resampling from s to t and the result back from t to s
\* gives a length within 1 sample of the original length, for every length
\* of at least 10 and every pair of positive rates.
C16_RoundTripWithinOne ==
    RoundTripDone => Abs(restored.n - waveform_n) <= 1

\* C16 amended: resampling from s to t and the result back from t to s
\* never gives more samples than the original n; it gives n or n - 1 when t
\* is at least s or within 0.1 Hz of it, and in every case loses fewer than
\* s / t + 1 samples.
C16_RoundTripLoss ==
    RoundTripDone =>
        /\ restored.n <= waveform_n
        /\ (fs_target >= fs_original \/ Abs(fs_original - fs_target) <= 10)
              => waveform_n - restored.n <= 1
        /\ (waveform_n - restored.n) * fs_target < fs_original + fs_target
        /\ restored.fs = fs_original

\* 31 samples from 3 Hz to 125 Hz and back: 1291 samples, then 30
C16_Witness ==
    /\ waveform_n = 31
    /\ fs_original = 300
    /\ fs_target = 12500
    /\ restored.state = "returned"
    /\ restored.n = 30

----------------------------------------------------------------------------
(* Properties of the model wrapper *)

\* The segments are exactly floor(L / S) consecutive runs of S samples from
\* sample 0 on, in order, and fewer than S trailing samples are left over
CutInto(S) ==
    /\ Len(segmented_signals.value) * S <= extract_n
    /\ extract_n < (Len(segmented_signals.value) + 1) * S
    /\ \A k \in 1 .. Len(segmented_signals.value) :
          /\ segmented_signals.value[k].start = (k - 1) * S
          /\ segmented_signals.value[k].stop = k * S
    /\ \A j, k \in 1 .. Len(segmented_signals.value) :
          j < k => segmented_signals.value[j].stop <= segmented_signals.value[k].start

\* 3125 samples at 125 Hz give 2 segments of 1250 samples
TwentyFiveSeconds ==
    (extract_n = 3125 /\ extract_fs = 12500) =>
        /\ Len(segmented_signals.value) = 2
        /\ \A k \in 1 .. 2 : segmented_signals.value[k].stop - segmented_signals.value[k].start = 1250

\* C17 as stated: a signal of L samples at rate r is cut into floor(L / S)
\* segments with S = round(10 * r), segment k being the samples
\* [k*S, (k+1)*S), without overlap, in order, the trailing L mod S samples
\* dropped; 3125 samples at 125 Hz give 2 segments of 1250.
C17_SegmentsRounded ==
    (segmented_signals # Unset /\ extract_fs >= 10) =>
        /\ CutInto((extract_fs + 5) \div 10)
        /\ TwentyFiveSeconds

\* C17 amended: a signal of L samples at rate r is cut into floor(L / S)
\* segments with S = 10 * r truncated to an integer, segment k being the
\* samples [k*S, (k+1)*S), without overlap, in order, the trailing L mod S
\* samples dropped; 3125 samples at 125 Hz give 2 segments of 1250.
C17_SegmentsTruncated ==
    (segmented_signals # Unset /\ extract_fs >= 10) =>
        /\ CutInto(extract_fs \div 10)
        /\ TwentyFiveSeconds

C17_Witness ==
    /\ extract_n = 3125
    /\ extract_fs = 12500
    /\ segmented_signals = Returned(<< [start |-> 0, stop |-> 1250], [start |-> 1250, stop |-> 2500] >>)

\* C18 as stated: when no segment comes out, extract_embeddings and
\* predict_signal_quality both report an error to their caller; neither
\* returns a value.
C18_ZeroSegmentsRaise ==
    (segmented_signals = Returned(<<>>)) =>
        /\ segment_embeddings = Raised
        /\ predicted_quality # Unset => predicted_quality.state = "raised"

\* C18 amended: when no segment comes out, extract_embeddings reports an
\* error to its caller (and returns embeddings otherwise);
\* predict_signal_quality catches that error and returns the quality 0.0.
C18_ZeroSegmentsRaiseOrZero ==
    segmented_signals # Unset =>
        /\ (segment_embeddings = Raised) <=> (segmented_signals.value = <<>>)
        /\ (segmented_signals = Returned(<<>>) /\ predicted_quality # Unset) =>
              /\ predicted_quality.state = "returned"
              /\ predicted_quality.value.num = 0

\* 1249 samples at 125 Hz: no segment, and a predicted quality of 0.0
C18_Witness ==
    /\ extract_n = 1249
    /\ extract_fs = 12500
    /\ segmented_signals = Returned(<<>>)
    /\ segment_embeddings = Raised
    /\ predicted_quality.state = "returned"

----------------------------------------------------------------------------
(* C19: concurrent invocations *)

\* The responses analyze_ppg can give to request req when it runs alone and
\* finds the handle m at its entry: main.py:125-183 stage after stage.
AloneResponses(req, m) ==
    IF m = "None" THEN {ModelNotLoaded}
    ELSE IF req.n < MinSamples THEN {InsufficientData}
    ELSE LET f == FilterStage(req.n, req.frameRate)
         IN IF ~f.ok THEN {ProcessingError(f.error)}
            ELSE UNION {
                   IF ~o.ok THEN {ProcessingError(o.error)}
                   ELSE IF ~CallBinds
                   THEN {ProcessingError("PaPaGeiModel.extract_embeddings() missing 1 required positional argument: 'fs'")}
                   ELSE IF SegmentCount(o.n, o.fs) = 0
                   THEN {ProcessingError("No valid segments extracted from signal")}
                   ELSE { SuccessResponse(pe.heartRate, pe.hrv, rr, q) :
                            pe \in PeakEstimates,
                            rr \in EstimateOutcomes, q \in QualityOutcomes }
                   : o \in ResampleOutcomes(req.n, req.frameRate, TargetRate) }

\* What an invocation holds after its filter stage is its own request filtered
OwnSignal(inv) ==
    inv.pc = "Resampling" =>
        /\ inv.processed.n = inv.request.n
        /\ inv.processed.fs = inv.request.frameRate

RespondsAsAlone(inv) ==
    /\ OwnSignal(inv)
    /\ inv.pc \in Terminal => inv.response \in AloneResponses(inv.request, inv.modelAtEntry)

Running == Invocation(pc, request, modelAtEntry, processed, trace, response)

\* C19: concurrent analyze invocations are independent.  The model handle
\* is written only by startup and shutdown and no invocation writes the
\* availability flag or the lifespan; a step of one invocation leaves the
\* locals of the other as they are; and in every interleaving of two
\* invocations each answers what it can answer when it runs alone against
\* the handle it found at its entry.
C19_Independent ==
    /\ [][papagei_model' # papagei_model =>
              \/ lifespan = "not_started" /\ lifespan' = "serving"
              \/ lifespan = "serving" /\ lifespan' = "stopped"]_vars
    /\ [][(pc' # pc \/ trace' # trace \/ peer' # peer) /\ lifespan = "serving" /\ lifespan' = "serving" =>
              /\ PAPAGEI_AVAILABLE' = PAPAGEI_AVAILABLE
              /\ papagei_model' = papagei_model]_vars
    /\ [][peer' = peer \/ (peer' = Running /\ Running' = peer)]_vars
    /\ [](RespondsAsAlone(Running) /\ RespondsAsAlone(peer))

\* Two requests in progress at once: 300 samples at 30 Hz has been filtered
\* and waits, while 30 samples at 6000 Hz has run to its answer
C19_Witness ==
    /\ peer.pc = "Resampling"
    /\ peer.request = [n |-> 300, frameRate |-> 3000]
    /\ pc \in Terminal
    /\ request = [n |-> 30, frameRate |-> 600000]
    /\ Len(trace) >= 2
    /\ response \in AloneResponses(request, modelAtEntry)

----------------------------------------------------------------------------
(* C20: startup *)

\* C20 as stated: startup always completes, whatever happens to the model.
\* The lifespan never fails to start; when the module is unavailable the
\* service still serves with the handle None, the health check then reports
\* model_loaded false and analyze answers 503; the handle is non-None only
\* while serving after a successful load, and is None after shutdown.
C20_StartupCompletes ==
    /\ lifespan # "startup_failed"
    /\ papagei_model # "None" => (lifespan = "serving" /\ PAPAGEI_AVAILABLE)
    /\ lifespan = "stopped" => papagei_model = "None"
    /\ (lifespan = "serving" /\ papagei_model = "None") => ~health_check.model_loaded
    /\ (pc \in Terminal /\ modelAtEntry = "None") => response.status = 503

----------------------------------------------------------------------------
(* C21: an HRV comes with a heart rate *)

\* C21: for the same signal and rate, whenever estimate_hrv_traditional
\* returns a non-null HRV, estimate_heart_rate_traditional returns a non-null
\* heart rate: both detect the same peaks.  The converse fails only with
\* exactly 2 peaks: a heart rate without an HRV.
C21_HrvImpliesHeartRate ==
    /\ (hrv.state = "returned" /\ hrv.value # None) =>
           (heart_rate.state = "returned" /\ heart_rate.value # None)
    /\ (heart_rate.state = "returned" /\ heart_rate.value # None /\ hrv = Returned(None)) =>
           Len(PeaksFound.peaks) = 2

\* Three peaks: both values are returned
C21_Witness ==
    /\ Len(PeaksFound.peaks) = 3
    /\ hrv.state = "returned"
    /\ hrv.value # None
    /\ heart_rate.state = "returned"
    /\ heart_rate.value # None

----------------------------------------------------------------------------
(* C22: the respiratory rate at 125 Hz *)

\* C22: at 125 Hz with at least 500 samples the Welch segment is 500 samples
\* long, so the PSD has the 251 bins k * 0.25 Hz; exactly one of them, the
\* bin 1 at 0.25 Hz, lies in [0.15, 0.4] Hz; and
\* estimate_respiratory_rate_traditional returns exactly 15.0 breaths/min
\* whatever the PSD holds.
C22_AlwaysFifteen ==
    (welch_fs = 12500 /\ welch_n >= 500) =>
        /\ DOMAIN psd = 0 .. 250
        /\ { k \in DOMAIN psd : 15 * 500 <= k * welch_fs /\ k * welch_fs <= 40 * 500 } = {1}
        /\ respiratory_rate # Unset =>
              /\ respiratory_rate.state = "returned"
              /\ respiratory_rate.value # None
              /\ respiratory_rate.value[1].num = 15 * respiratory_rate.value[1].den

\* 1250 samples at 125 Hz with no power at 0.25 Hz and power at 0.5 Hz:
\* 15.0 is returned all the same
C22_Witness ==
    /\ welch_fs = 12500
    /\ welch_n = 1250
    /\ psd[1] = 0
    /\ psd[2] > 0
    /\ respiratory_rate.state = "returned"
    /\ respiratory_rate.value # None
    /\ respiratory_rate.value[1].num = 15 * respiratory_rate.value[1].den

----------------------------------------------------------------------------
(* C23: the bin shared by the two bands of calculate_snr *)

\* The bins that hold power
PoweredBins == { k \in DOMAIN psd : psd[k] > 0 }

\* Bin k is the frequency 4.0 Hz
AtFourHertz(k) == k * welch_fs = 400 * Nperseg(welch_n, welch_fs)

\* C23: the signal band and the noise band of calculate_snr share the bins
\* at exactly 4.0 Hz and no other.  When all the power of the PSD is in one
\* bin, the signal-band mean and the noise-band mean are both positive
\* exactly when that bin is at 4.0 Hz: it is counted in both, and every
\* other bin in at most one.
C23_SharedBin ==
    /\ Band(welch_n, welch_fs, 50, 400) \cap Band(welch_n, welch_fs, 400, 800)
          = { k \in DOMAIN psd : AtFourHertz(k) }
    /\ (snr # Unset /\ Cardinality(PoweredBins) = 1) =>
          LET j == CHOOSE k \in PoweredBins : TRUE
              bothPositive == /\ snr.state = "returned"
                              /\ snr.value.divided
                              /\ snr.value.divisor.num > 0
                              /\ snr.value.ratio.num > 0
          IN bothPositive <=> AtFourHertz(j)

\* At 125 Hz with a 500-sample segment bin 16 is 4.0 Hz; with all the power
\* there both means are positive
C23_Witness ==
    /\ welch_fs = 12500
    /\ welch_n = 500
    /\ PoweredBins = {16}
    /\ snr.state = "returned"
    /\ snr.value.divided
    /\ snr.value.ratio.num > 0

====
